---- MODULE Spec2Model ----
(***************************************************************************)
(* doitlive: keystroke-paced playback of a session script (run,           *)
(* magictype, wait_for, run_command) and the interactive recorder          *)
(* (record, run_recorder), modelled from src/doitlive.py.                  *)
(*                                                                         *)
(* A text (a Python str) is a sequence of one-character strings, so that   *)
(* strip(), startswith(), split(), slicing, the directive regular          *)
(* expression, int() and the recorder's file format are computed character *)
(* by character, as the code computes them.                                *)
(***************************************************************************)
EXTENDS Integers, Sequences, FiniteSets, TLC

VARIABLES
    pc,               \* where the process is (see the actions)
    commands,         \* run: the list of lines being played
    idx,              \* run: number of lines of `commands` already consumed by the for loop
    shell,            \* run: current shell
    prompt_template,  \* run: current prompt template
    speed,            \* run: current speed
    test_mode,        \* run: test_mode argument
    aliases,          \* run: accumulated aliases
    envvars,          \* run: accumulated env vars
    text,             \* magictype: the command being typed
    i,                \* magictype: emission cursor
    in_char,          \* magictype / wait_for: the keystroke read last
    emitted,          \* terminal: characters echoed for the command being typed
    keys,             \* terminal: keystrokes read by magictype's typing loop for this command
    prompts,          \* terminal: prompt templates rendered so far
    warnings,         \* terminal: 'No such file or directory' messages echoed
    executed,         \* the calls of run_command so far, in order
    cwd,              \* the process's current working directory
    session_file,     \* the session file's content (NoFile: it does not exist)
    rec,              \* record: its arguments shell, prompt, alias, envvar and its saved cwd
    rec_commands,     \* run_recorder: the buffer `commands`
    command,          \* run_recorder: the input read last, stripped
    answer,           \* click.confirm: the answer given last
    term              \* TermString: a prompt token's value and the modifiers applied to it

vars == <<pc, commands, idx, shell, prompt_template, speed, test_mode, aliases,
          envvars, text, i, in_char, emitted, keys, prompts, warnings, executed, cwd,
          session_file, rec, rec_commands, command, answer, term>>

----------------------------------------------------------------------------
(* Python str helpers *)

WHITESPACE == {" ", "\t", "\n", "\r"}

Min(S) == CHOOSE m \in S : \A n \in S : m <= n

RECURSIVE lstrip(_)
lstrip(s) == IF s # <<>> /\ Head(s) \in WHITESPACE THEN lstrip(Tail(s)) ELSE s

RECURSIVE rstrip(_)
rstrip(s) ==
    IF s # <<>> /\ s[Len(s)] \in WHITESPACE THEN rstrip(SubSeq(s, 1, Len(s) - 1)) ELSE s

strip(s) == rstrip(lstrip(s))

startswith(s, prefix) == Len(s) >= Len(prefix) /\ SubSeq(s, 1, Len(prefix)) = prefix

\* 'needle in s' for strings
contains(s, needle) ==
    \E k \in 0..(Len(s) - Len(needle)) : SubSeq(s, k + 1, k + Len(needle)) = needle

\* A slice bound as Python normalises it: negative counts from the end, then clamped.
slice_index(n, len) ==
    IF n < 0 THEN (IF n + len < 0 THEN 0 ELSE n + len)
    ELSE IF n > len THEN len ELSE n

\* s[a:b]
slice(s, a, b) == SubSeq(s, slice_index(a, Len(s)) + 1, slice_index(b, Len(s)))

\* s.split(): the maximal runs of non-whitespace characters
RECURSIVE split(_)
split(s) ==
    LET t == lstrip(s)
        ws == {k \in 1..Len(t) : t[k] \in WHITESPACE}
        n == IF ws = {} THEN Len(t) ELSE Min(ws) - 1
    IN  IF t = <<>> THEN <<>>
        ELSE <<SubSeq(t, 1, n)>> \o split(SubSeq(t, n + 1, Len(t)))

\* sep.join(list)
RECURSIVE join(_, _)
join(sep, list) ==
    IF list = <<>> THEN <<>>
    ELSE IF Len(list) = 1 THEN list[1]
    ELSE list[1] \o sep \o join(sep, Tail(list))

\* fp.readlines(): the lines of a file, each with its terminating newline
RECURSIVE readlines(_)
readlines(f) ==
    LET nl == {k \in 1..Len(f) : f[k] = "\n"}
        n == IF nl = {} THEN Len(f) ELSE Min(nl)
    IN  IF f = <<>> THEN <<>>
        ELSE <<SubSeq(f, 1, n)>> \o readlines(SubSeq(f, n + 1, Len(f)))

DIGITS == <<"0", "1", "2", "3", "4", "5", "6", "7", "8", "9">>

digit(c) == (CHOOSE d \in 1..10 : DIGITS[d] = c) - 1

isdigit(c) == \E d \in 1..10 : DIGITS[d] = c

\* the digits of an int() literal, sign and surrounding whitespace removed
int_digits(s) ==
    LET t == strip(s) IN IF t # <<>> /\ Head(t) \in {"+", "-"} THEN Tail(t) ELSE t

\* int(s) does not raise ValueError
int_ok(s) == int_digits(s) # <<>> /\ \A k \in 1..Len(int_digits(s)) : isdigit(int_digits(s)[k])

RECURSIVE digits_value(_)
digits_value(d) ==
    IF d = <<>> THEN 0 ELSE 10 * digits_value(SubSeq(d, 1, Len(d) - 1)) + digit(d[Len(d)])

\* int(s), for s with int_ok(s)
int(s) ==
    IF Head(strip(s)) = "-" THEN 0 - digits_value(int_digits(s)) ELSE digits_value(int_digits(s))

----------------------------------------------------------------------------
(* Module constants *)

ESC == "ESC"                       \* stands for the one character '\x1b'
RETURNS == {"\r", "\n"}

DOITLIVE == <<"d", "o", "i", "t", "l", "i", "v", "e">>
PROMPT == <<"p", "r", "o", "m", "p", "t">>
SHELL == <<"s", "h", "e", "l", "l">>
ALIAS == <<"a", "l", "i", "a", "s">>
ENV == <<"e", "n", "v">>
SPEED == <<"s", "p", "e", "e", "d">>
OPTIONS == {PROMPT, SHELL, ALIAS, ENV, SPEED}

NoMatch == [option |-> <<>>, arg |-> <<>>]

\* OPTION_RE.match(line): ^#\s?doitlive\s+(prompt|shell|alias|env|speed):\s*(.+)$
\* as the record of its two groups, NoMatch when the line does not match.
\* (\s? and \s+ are followed by a letter and \s* by '.+' up to the end, so the greedy
\* match is the only one, except that \s* gives back one character when nothing
\* but whitespace follows the colon; '.' matches no newline.)
OPTION_RE(line) ==
    IF ~startswith(line, <<"#">>) THEN NoMatch
    ELSE
    LET r1 == Tail(line)
        r2 == IF r1 # <<>> /\ Head(r1) \in WHITESPACE THEN Tail(r1) ELSE r1
    IN  IF ~startswith(r2, DOITLIVE) THEN NoMatch
        ELSE
        LET r3 == SubSeq(r2, Len(DOITLIVE) + 1, Len(r2))
            r4 == lstrip(r3)
            opts == {o \in OPTIONS : startswith(r4, o \o <<":">>)}
        IN  IF r3 = r4 \/ opts = {} THEN NoMatch
            ELSE
            LET o == CHOOSE o \in opts : TRUE
                r5 == SubSeq(r4, Len(o) + 2, Len(r4))
                r6 == IF lstrip(r5) # <<>> THEN lstrip(r5)
                      ELSE SubSeq(r5, Len(r5), Len(r5))
            IN  IF r6 = <<>> \/ \E k \in 1..Len(r6) : r6[k] = "\n" THEN NoMatch
                ELSE [option |-> o, arg |-> r6]

\* '#doitlive {directive}: {arg}\n' (write_directives), without the newline
directive_line(directive, arg) ==
    <<"#">> \o DOITLIVE \o <<" ">> \o directive \o <<":", " ">> \o arg

----------------------------------------------------------------------------
(* The process environment *)

HOME == <<"/", "h">>                          \* env['HOME']
\* the directories that exist: the home directory and its 'x' and 'x y'
DIRS == {HOME, HOME \o <<"/", "x">>, HOME \o <<"/", "x", " ", "y">>}
START_DIR == HOME                             \* the directory doitlive is started in
DOITLIVE_INTERPRETER == <<>>                  \* env.get('DOITLIVE_INTERPRETER'): unset

BIN_BASH == <<"/", "b", "i", "n", "/", "b", "a", "s", "h">>
BASH == <<"b", "a", "s", "h">>
DEFAULT == <<"d", "e", "f", "a", "u", "l", "t">>
CD == <<"c", "d", " ">>
CODING == <<"#", " ", "-", "*", "-", " ", "c", "o", "d", "i", "n", "g", ":", " ",
            "u", "t", "f", "-", "8", " ", "-", "*", "-">>
SHOPT == <<"s", "h", "o", "p", "t", " ", "-", "s", " ", "e", "x", "p", "a", "n", "d",
           "_", "a", "l", "i", "a", "s", "e", "s">>
EXPORT == <<"e", "x", "p", "o", "r", "t">>

\* os.path.expanduser(path): a leading '~' or '~/' is the home directory
expanduser(path) ==
    IF path # <<>> /\ Head(path) = "~" /\ (Len(path) = 1 \/ path[2] = "/")
    THEN HOME \o Tail(path) ELSE path

\* the directory os.chdir(path) names when the process is in `dir`
resolve(dir, path) ==
    IF path # <<>> /\ Head(path) = "/" THEN path ELSE dir \o <<"/">> \o path

\* os.chdir(path) succeeds (else it raises OSError)
chdir_ok(dir, path) == path # <<>> /\ resolve(dir, path) \in DIRS

\* write_commands(fp, command, args): the lines written, one per arg
write_commands(word, args) ==
    [k \in 1..Len(args) |-> word \o <<" ">> \o args[k]]

\* shell = shell or env.get('DOITLIVE_INTERPRETER') or '/bin/bash'
effective_shell(sh) ==
    IF sh # <<>> THEN sh
    ELSE IF DOITLIVE_INTERPRETER # <<>> THEN DOITLIVE_INTERPRETER ELSE BIN_BASH

\* run_command takes the cd branch
is_cd(cmd) == startswith(cmd, CD)

\* directory = cmd.split()[1]
cd_directory(cmd) == split(cmd)[2]

\* Faulty variant of command_file: the alias-expansion line is written after the
\* exports and the aliases.
command_file_shopt_late(cmd, sh, al, ev) ==
    <<<<"#", "!">> \o sh, CODING>>
    \o write_commands(EXPORT, ev)
    \o write_commands(ALIAS, al)
    \o (IF contains(sh, BASH) THEN <<SHOPT>> ELSE <<>>)
    \o <<cmd>>

\* the lines run_command writes to the temporary interpreter script
command_file(cmd, sh, al, ev) ==
    <<<<"#", "!">> \o sh, CODING>>
    \o (IF contains(sh, BASH) THEN <<SHOPT>> ELSE <<>>)
    \o write_commands(EXPORT, ev)
    \o write_commands(ALIAS, al)
    \o <<cmd>>

NoStatus == 0 - 1        \* no child process was run

\* The record of one call run_command(cmd, shell, aliases, envvars, test_mode);
\* `status` is the exit status of the child process, when one is run.
call_record(cmd, sh, al, ev, tm, status) ==
    [cmd |-> cmd, shell |-> effective_shell(sh), aliases |-> al, envvars |-> ev,
     test_mode |-> tm,
     script |-> IF is_cd(cmd) THEN <<>> ELSE command_file(cmd, effective_shell(sh), al, ev),
     status |-> IF is_cd(cmd) THEN NoStatus ELSE status]

\* Faulty variant of run_command_raises: the OSError of os.chdir is not caught.
run_command_raises_oserror(cmd, tm, status) ==
    IF startswith(cmd, CD)
    THEN Len(split(cmd)) < 2 \/ ~chdir_ok(cwd, expanduser(split(cmd)[2]))
    ELSE tm /\ status # 0

\* Faulty variant of run_command_raises: the exit status is never inspected.
run_command_ignores_status(cmd, tm, status) ==
    startswith(cmd, CD) /\ Len(split(cmd)) < 2

\* run_command raises: cmd.split()[1] on a bare 'cd' (IndexError), or
\* subprocess.check_output on a non-zero exit in test mode (CalledProcessError)
run_command_raises(cmd, tm, status) ==
    IF is_cd(cmd) THEN Len(split(cmd)) < 2 ELSE tm /\ status # 0

\* run_command(cmd, shell, aliases, envvars, test_mode): its effect on the working
\* directory, the terminal and the log of calls
run_command(cmd, sh, al, ev, tm, status) ==
    /\ executed' = Append(executed, call_record(cmd, sh, al, ev, tm, status))
    /\ IF is_cd(cmd) /\ Len(split(cmd)) >= 2
       THEN LET directory == cd_directory(cmd) IN
            IF chdir_ok(cwd, expanduser(directory))
            THEN cwd' = resolve(cwd, expanduser(directory)) /\ warnings' = warnings
            ELSE cwd' = cwd /\ warnings' = Append(warnings, directory)
       ELSE cwd' = cwd /\ warnings' = warnings

\* Faulty variant of wait_for: ESC is taken for a return.
wait_for_esc_returns(key, chars) ==
    IF key = ESC \/ key \in chars THEN "return" ELSE "again"

\* Faulty variant of wait_for: any key but ESC is taken for a return.
wait_for_any_key(key, chars) == IF key = ESC THEN "abort" ELSE "return"

\* wait_for(chars) on one keystroke: raise Abort, return, or read again
wait_for(key, chars) ==
    IF key = ESC THEN "abort" ELSE IF key \in chars THEN "return" ELSE "again"

----------------------------------------------------------------------------
(* TermString: the styled values of a prompt template's tokens *)

\* An ANSI escape sequence is one element of a text: "ESC[" code "m".
FG == [blue |-> "ESC[34m", magenta |-> "ESC[35m", red |-> "ESC[31m", white |-> "ESC[37m",
       green |-> "ESC[32m", black |-> "ESC[30m", yellow |-> "ESC[33m", cyan |-> "ESC[36m",
       reset |-> "ESC[39m"]
ATTR == [bold |-> "ESC[1m", blink |-> "ESC[5m", underlined |-> "ESC[4m", dim |-> "ESC[2m"]
RESET_ALL == "ESC[0m"
ANSI == {FG[k] : k \in DOMAIN FG} \cup {ATTR[k] : k \in DOMAIN ATTR} \cup {RESET_ALL}

BACKSPACE == "\\b"

\* click.strip_ansi
is_text(c) == c \notin ANSI
strip_ansi(s) == SelectSeq(s, is_text)

\* click.style(text, fg=color) and click.style(text, <attribute>=True)
style(s, code) == <<code>> \o s \o <<RESET_ALL>>

\* Style.__get__ for the class attributes blue .. cyan, reset, bold .. dim
STYLES == DOMAIN FG \cup DOMAIN ATTR
Style(self, name) == style(self, IF name \in DOMAIN FG THEN FG[name] ELSE ATTR[name])

\* TermString._bracketed
bracketed(self, left, right) ==
    IF strip_ansi(self) # <<>> THEN <<left>> \o self \o <<right>> ELSE <<BACKSPACE>>

\* TermString.paren, .square, .curly
BRACKETS == [paren |-> <<"(", ")">>, square |-> <<"[", "]">>, curly |-> <<"{", "}">>]
bracket(self, name) == bracketed(self, BRACKETS[name][1], BRACKETS[name][2])

\* TermString.git
GIT_LABEL == style(<<"g", "i", "t">>, FG.blue) \o <<":">>
git(self) == IF strip_ansi(self) # <<>> THEN GIT_LABEL \o self ELSE <<BACKSPACE>>

----------------------------------------------------------------------------
(* Prompt themes *)

R_ANGLE_DOUBLE == "RAQUO"                 \* the character U+00BB

\* THEMES, an OrderedDict: the (name, template) pairs in their order
THEMES ==
    <<
      [name |-> <<"d", "e", "f", "a", "u", "l", "t">>,
       template |-> <<"{", "u", "s", "e", "r", ".", "c", "y", "a", "n", ".", "b", "o", "l", "d",
                     "}", "@", "{", "h", "o", "s", "t", "n", "a", "m", "e", ".", "b", "l", "u",
                     "e", "}", ":", "{", "d", "i", "r", ".", "g", "r", "e", "e", "n", "}", " ",
                     "$">>],
      [name |-> <<"s", "o", "r", "i", "n">>,
       template |-> <<"{", "c", "w", "d", ".", "c", "y", "a", "n", "}", " ", "{", "g", "i", "t",
                     "_", "b", "r", "a", "n", "c", "h", ".", "g", "r", "e", "e", "n", ".", "g",
                     "i", "t", "}", " ", "{", "r", "_", "a", "n", "g", "l", "e", ".", "r", "e",
                     "d", "}", "{", "r", "_", "a", "n", "g", "l", "e", ".", "y", "e", "l", "l",
                     "o", "w", "}", "{", "r", "_", "a", "n", "g", "l", "e", ".", "g", "r", "e",
                     "e", "n", "}">>],
      [name |-> <<"n", "i", "c", "o", "l", "a", "u", "j">>,
       template |-> <<"{", "r", "_", "a", "n", "g", "l", "e", ".", "w", "h", "i", "t", "e", "}">>],
      [name |-> <<"s", "t", "e", "e", "e", "f">>,
       template |-> <<"{", "u", "s", "e", "r", ".", "r", "e", "d", "}", " ", "a", "t", " ", "{",
                     "h", "o", "s", "t", "n", "a", "m", "e", ".", "y", "e", "l", "l", "o", "w",
                     "}", " ", "i", "n", " ", "{", "c", "w", "d", ".", "g", "r", "e", "e", "n",
                     "}", " ", "{", "g", "i", "t", "_", "b", "r", "a", "n", "c", "h", ".", "c",
                     "y", "a", "n", ".", "p", "a", "r", "e", "n", "}", "\n", "$">>],
      [name |-> <<"r", "e", "d", "h", "a", "t">>,
       template |-> <<"[", "{", "u", "s", "e", "r", "}", "@", "{", "h", "o", "s", "t", "n", "a",
                     "m", "e", "}", " ", "{", "d", "i", "r", "}", "]", "$">>],
      [name |-> <<"r", "e", "d", "h", "a", "t", "_", "c", "o", "l", "o", "r">>,
       template |-> <<"[", "{", "u", "s", "e", "r", ".", "r", "e", "d", ".", "b", "o", "l", "d",
                     "}", "@", "{", "h", "o", "s", "t", "n", "a", "m", "e", ".", "r", "e", "d",
                     "}", " ", "{", "d", "i", "r", ".", "b", "l", "u", "e", "}", "]", "$">>],
      [name |-> <<"w", "a", "l", "t", "e", "r", "s">>,
       template |-> <<"{", "u", "s", "e", "r", "}", "@", "{", "h", "o", "s", "t", "n", "a", "m",
                     "e", ".", "u", "n", "d", "e", "r", "l", "i", "n", "e", "d", "}", ">">>],
      [name |-> <<"w", "a", "l", "t", "e", "r", "s", "_", "c", "o", "l", "o", "r">>,
       template |-> <<"{", "u", "s", "e", "r", ".", "c", "y", "a", "n", ".", "b", "o", "l", "d",
                     "}", "@", "{", "h", "o", "s", "t", "n", "a", "m", "e", ".", "b", "l", "u",
                     "e", ".", "u", "n", "d", "e", "r", "l", "i", "n", "e", "d", "}", ">">>],
      [name |-> <<"m", "i", "n", "i", "m", "a", "l">>,
       template |-> <<"{", "d", "i", "r", "}", " ", "{", "g", "i", "t", "_", "b", "r", "a", "n",
                     "c", "h", ".", "s", "q", "u", "a", "r", "e", "}", " ", R_ANGLE_DOUBLE>>],
      [name |-> <<"m", "i", "n", "i", "m", "a", "l", "_", "c", "o", "l", "o", "r">>,
       template |-> <<"{", "d", "i", "r", ".", "c", "y", "a", "n", "}", " ", "{", "g", "i", "t",
                     "_", "b", "r", "a", "n", "c", "h", ".", "b", "l", "u", "e", ".", "s", "q",
                     "u", "a", "r", "e", "}", " ", R_ANGLE_DOUBLE>>],
      [name |-> <<"o", "s", "x">>,
       template |-> <<"{", "h", "o", "s", "t", "n", "a", "m", "e", "}", ":", "{", "d", "i", "r",
                     "}", " ", "{", "u", "s", "e", "r", "}", "$">>],
      [name |-> <<"o", "s", "x", "_", "c", "o", "l", "o", "r">>,
       template |-> <<"{", "h", "o", "s", "t", "n", "a", "m", "e", ".", "b", "l", "u", "e", "}",
                     ":", "{", "d", "i", "r", ".", "g", "r", "e", "e", "n", "}", " ", "{", "u",
                     "s", "e", "r", ".", "c", "y", "a", "n", "}", "$">>],
      [name |-> <<"p", "w", "s">>,
       template |-> <<"+", "{", "n", "o", "w", ":", "%", "I", ":", "%", "M", "}", "%">>],
      [name |-> <<"r", "o", "b", "b", "y", "r", "u", "s", "s", "e", "l", "l">>,
       template |-> <<"{", "r", "_", "a", "r", "r", "o", "w", ".", "r", "e", "d", "}", " ", "{",
                     "d", "i", "r", ".", "c", "y", "a", "n", "}", " ", "{", "g", "i", "t", "_",
                     "b", "r", "a", "n", "c", "h", ".", "r", "e", "d", ".", "p", "a", "r", "e",
                     "n", ".", "g", "i", "t", "}">>]
    >>

THEME_NAMES == {THEMES[k].name : k \in 1..Len(THEMES)}

\* THEMES[name]; a KeyError when has_theme(name) is false
has_theme(name) == name \in THEME_NAMES
theme(name) == THEMES[CHOOSE k \in 1..Len(THEMES) : THEMES[k].name = name].template

\* Python's None
None == <<"None">>

\* THEMES.get(name)
THEMES_get(name) == IF has_theme(name) THEN theme(name) ELSE None

\* make_prompt_formatter: the template format_prompt is given,
\* 'THEMES.get(template) or template'
make_prompt_formatter(template) ==
    IF THEMES_get(template) \notin {None, <<>>} THEN THEMES_get(template) ELSE template

\* an entry of the log of rendered prompts: the configured template and the
\* template string handed to format_prompt
rendered(template, tpl) == [template |-> template, tpl |-> tpl]

----------------------------------------------------------------------------
(* Inputs: the session scripts played and the keystrokes typed *)

MaxLines == 3            \* a played script has at most this many lines
MaxKeys == 5             \* keystrokes followed while one command is typed (more than
                         \* the longest command has characters)

L_BLANK == <<" ">>
L_COMMENT == <<"#", "x">>
L_ALIAS_A == directive_line(ALIAS, <<"a">>)
L_ALIAS_B == <<"#", " ">> \o DOITLIVE \o <<" ", " ">> \o ALIAS \o <<":", "b">>
L_ENV_E == directive_line(ENV, <<"e">>)
L_SPEED_3 == directive_line(SPEED, <<"3">>)
L_SPEED_0 == directive_line(SPEED, <<"0">>)
L_SPEED_X == directive_line(SPEED, <<"x">>)
L_SHELL == directive_line(SHELL, <<"s", "h">>)
L_PROMPT == directive_line(PROMPT, <<"p">>)
L_LS == <<" ", "l", "s", " ">>
L_CD == <<"c", "d", " ", "x">>
L_CD_XY == <<"c", "d", " ", "x", " ", "y">>

ScriptLines ==
    {L_BLANK, L_COMMENT, L_ALIAS_A, L_ALIAS_B, L_ENV_E, L_SPEED_3, L_SPEED_0,
     L_SPEED_X, L_SHELL, L_PROMPT, L_LS, L_CD}

Scripts == UNION {[1..n -> ScriptLines] : n \in 0..MaxLines}

\* the text of a file holding the given lines, each ended by a newline
RECURSIVE file_of(_)
file_of(lines) ==
    IF lines = <<>> THEN <<>> ELSE Head(lines) \o <<"\n">> \o file_of(Tail(lines))

KEYS == {ESC, "\r", "x"}                  \* what getchar() may return

STATUSES == {0, 1}                      \* exit statuses of a child process

NoFile == <<"NoFile">>
NoRec == [shell |-> <<>>, prompt |-> <<>>, alias |-> <<>>, envvar |-> <<>>, cwd |-> <<>>]
NoTerm == [raw |-> <<>>, mods |-> <<>>, value |-> <<>>]

MaxRecorded == 2         \* commands entered (and executed) in one recording
MaxInputs == 4           \* lines read at the recorder's prompt in one recording

BIN_SH == <<"/", "b", "i", "n", "/", "s", "h">>
SORIN == <<"s", "o", "r", "i", "n">>
LITERAL == <<"{", "d", "i", "r", "}", " ", "$">>     \* a template that is no theme's name

\* the options of 'doitlive record': (shell, prompt) and (alias, envvar)
RecordArgs ==
    {[shell |-> sp[1], prompt |-> sp[2], alias |-> ae[1], envvar |-> ae[2], cwd |-> <<>>] :
        sp \in {<<BIN_BASH, DEFAULT>>, <<BIN_SH, SORIN>>, <<BIN_BASH, LITERAL>>},
        ae \in {<<<<>>, <<>>>>, <<<< <<"b">>, <<"a">> >>, << <<"e">> >>>>}}

STOP_COMMAND == <<"s", "t", "o", "p">>
PREVIEW_COMMAND == <<"P">>
UNDO_COMMAND == <<"U">>

\* the lines the operator may type at the recorder's prompt (click.prompt returns
\* any non-empty line)
RecorderInputs ==
    {STOP_COMMAND, PREVIEW_COMMAND, UNDO_COMMAND, L_LS, L_CD, L_CD_XY, L_COMMENT, L_BLANK}

OLD_FILE == file_of(<<L_CD>>)            \* a session file left by an earlier run

----------------------------------------------------------------------------
(* doitlive play *)

InitPlay ==
    /\ pc = "play"
    /\ session_file \in {file_of(script) : script \in Scripts}
    /\ shell = BIN_BASH                 \* SHELL_OPTION default
    /\ prompt_template = DEFAULT        \* PROMPT_OPTION default
    /\ speed = 1                        \* SPEED_OPTION default
    /\ test_mode \in BOOLEAN            \* TESTING
    /\ rec = NoRec

InitRecord ==
    /\ pc = "record"
    /\ session_file \in {NoFile, OLD_FILE}
    /\ rec \in RecordArgs
    /\ shell = BIN_BASH                 \* the options of the 'doitlive play' that
    /\ prompt_template = DEFAULT        \* may follow the recording: the defaults
    /\ speed = 1
    /\ test_mode = FALSE                \* TESTING = False

InitLocals ==
    /\ commands = <<>> /\ idx = 0
    /\ aliases = <<>> /\ envvars = <<>>
    /\ text = <<>> /\ i = 0 /\ in_char = "" /\ emitted = <<>> /\ keys = 0
    /\ prompts = <<>> /\ warnings = <<>> /\ executed = <<>>
    /\ cwd = START_DIR
    /\ rec_commands = <<>> /\ command = <<>> /\ answer = FALSE

Init ==
    /\ InitPlay \/ InitRecord
    /\ InitLocals
    /\ term = NoTerm

\* play: a process running 'doitlive play session_file' starts, in the directory and
\* with a terminal of its own: run(session_file.readlines(), shell=shell, speed=speed,
\* test_mode=TESTING, prompt_template=prompt), up to the top of run's for loop.
\* The file is one the user wrote or the one a finished recording wrote.
Play ==
    /\ pc \in {"play", "recorded"}
    /\ commands' = readlines(session_file)
    /\ idx' = 0
    /\ aliases' = <<>> /\ envvars' = <<>>
    /\ prompts' = <<>> /\ warnings' = <<>> /\ executed' = <<>>
    /\ cwd' = START_DIR
    /\ command' = <<>> /\ answer' = FALSE
    /\ pc' = "run"
    /\ UNCHANGED <<shell, prompt_template, speed, test_mode, text, i, in_char, emitted,
                   keys, session_file, rec, rec_commands, term>>

\* run: the line the for loop is at, stripped
line_command == strip(commands[idx + 1])

at_line == pc = "run" /\ idx < Len(commands)

\* Faulty variant of is_comment: only the lines OPTION_RE matches are skipped.
is_comment_directive(cmd) == startswith(cmd, <<"#">>) /\ OPTION_RE(cmd) # NoMatch

\* run: command.startswith('#')
is_comment(cmd) == startswith(cmd, <<"#">>)

skip_line ==
    /\ idx' = idx + 1
    /\ pc' = "run"

no_typing == UNCHANGED <<text, i, in_char, emitted, keys, prompts, warnings, executed, cwd>>

no_recorder == UNCHANGED <<session_file, rec, rec_commands, command, answer, term>>

\* run: 'if not command: continue'
Run_blank ==
    /\ at_line
    /\ line_command = <<>>
    /\ skip_line
    /\ UNCHANGED <<commands, shell, prompt_template, speed, test_mode, aliases, envvars>>
    /\ no_typing /\ no_recorder

\* run: a line starting with '#' that OPTION_RE does not match
Run_comment ==
    /\ at_line
    /\ is_comment(line_command)
    /\ OPTION_RE(line_command) = NoMatch
    /\ skip_line
    /\ UNCHANGED <<commands, shell, prompt_template, speed, test_mode, aliases, envvars>>
    /\ no_typing /\ no_recorder

is_option(option) ==
    /\ at_line
    /\ is_comment(line_command)
    /\ OPTION_RE(line_command) # NoMatch
    /\ OPTION_RE(line_command).option = option

option_arg == OPTION_RE(line_command).arg

\* run: prompt_template = arg
Run_prompt ==
    /\ is_option(PROMPT)
    /\ prompt_template' = option_arg
    /\ skip_line
    /\ UNCHANGED <<commands, shell, speed, test_mode, aliases, envvars>>
    /\ no_typing /\ no_recorder

\* run: shell = arg
Run_shell ==
    /\ is_option(SHELL)
    /\ shell' = option_arg
    /\ skip_line
    /\ UNCHANGED <<commands, prompt_template, speed, test_mode, aliases, envvars>>
    /\ no_typing /\ no_recorder

\* Faulty variant of append_arg: a value already in the list is not added again.
append_arg_unique(list, arg) ==
    IF \E k \in 1..Len(list) : list[k] = arg THEN list ELSE Append(list, arg)

\* aliases.append(arg), envvars.append(arg)
append_arg(list, arg) == Append(list, arg)

\* run: aliases.append(arg)
Run_alias ==
    /\ is_option(ALIAS)
    /\ aliases' = append_arg(aliases, option_arg)
    /\ skip_line
    /\ UNCHANGED <<commands, shell, prompt_template, speed, test_mode, envvars>>
    /\ no_typing /\ no_recorder

\* run: envvars.append(arg)
Run_env ==
    /\ is_option(ENV)
    /\ envvars' = append_arg(envvars, option_arg)
    /\ skip_line
    /\ UNCHANGED <<commands, shell, prompt_template, speed, test_mode, aliases>>
    /\ no_typing /\ no_recorder

\* run: speed = int(arg); a ValueError ends the process
Run_speed ==
    /\ is_option(SPEED)
    /\ IF int_ok(option_arg)
       THEN speed' = int(option_arg) /\ skip_line
       ELSE speed' = speed /\ idx' = idx /\ pc' = "error"
    /\ UNCHANGED <<commands, shell, prompt_template, test_mode, aliases, envvars>>
    /\ no_typing /\ no_recorder

\* run calls magictype(command, ...): the prompt is rendered and echoed, i = 0, and
\* the while loop is entered (or skipped, for an empty text)
Run_magictype ==
    /\ at_line
    /\ line_command # <<>>
    /\ ~is_comment(line_command)
    /\ text' = line_command
    /\ prompts' = Append(prompts, rendered(prompt_template,
                                           make_prompt_formatter(prompt_template)))
    /\ i' = 0 /\ emitted' = <<>> /\ keys' = 0
    /\ pc' = IF 0 < Len(line_command) THEN "magictype" ELSE "magictype_wait_for"
    /\ UNCHANGED <<commands, idx, shell, prompt_template, speed, test_mode, aliases,
                   envvars, in_char, warnings, executed, cwd>>
    /\ no_recorder

\* magictype: char = text[i:i + speed]
next_chars(t, cursor, n) == slice(t, cursor, cursor + n)

\* Faulty variant of next_cursor: the cursor moves one character too far.
next_cursor_skip(cursor, n) == cursor + n + 1

\* magictype: i += speed
next_cursor(cursor, n) == cursor + n

\* Faulty variant of getchar_aborts: the typing loop does not look for ESC.
getchar_never_aborts(key) == FALSE

\* magictype: 'if in_char == ESC: echo(); raise click.Abort()'
getchar_aborts(key) == key = ESC

\* magictype: one pass of 'while i < len(text)': read a key; ESC aborts, any other
\* key echoes the next characters and advances the cursor
Magictype_getchar ==
    /\ pc = "magictype"
    /\ keys < MaxKeys
    /\ \E key \in KEYS :
        /\ in_char' = key
        /\ keys' = keys + 1
        /\ IF getchar_aborts(key)
           THEN /\ pc' = "aborted"
                /\ UNCHANGED <<emitted, i>>
           ELSE /\ emitted' = emitted \o next_chars(text, i, speed)
                /\ i' = next_cursor(i, speed)
                /\ pc' = IF next_cursor(i, speed) < Len(text)
                         THEN "magictype" ELSE "magictype_wait_for"
    /\ UNCHANGED <<commands, idx, shell, prompt_template, speed, test_mode, aliases,
                   envvars, text, prompts, warnings, executed, cwd>>
    /\ no_recorder

\* magictype: wait_for(RETURNS), then run_command(text, shell, aliases, envvars,
\* test_mode) and back to run's for loop; an exception of run_command ends the process
Magictype_wait_for ==
    /\ pc = "magictype_wait_for"
    /\ \E key \in KEYS, status \in STATUSES :
        /\ in_char' = key
        /\ IF wait_for(key, RETURNS) = "return"
           THEN /\ run_command(text, shell, aliases, envvars, test_mode, status)
                /\ IF run_command_raises(text, test_mode, status)
                   THEN pc' = "error" /\ idx' = idx
                   ELSE pc' = "run" /\ idx' = idx + 1
           ELSE /\ pc' = IF wait_for(key, RETURNS) = "abort"
                         THEN "aborted" ELSE "magictype_wait_for"
                /\ UNCHANGED <<idx, warnings, executed, cwd>>
    /\ UNCHANGED <<commands, shell, prompt_template, speed, test_mode, aliases, envvars,
                   text, i, emitted, keys, prompts>>
    /\ no_recorder

\* run: after the for loop, the prompt is rendered and echoed once more
Run_prompt_last ==
    /\ pc = "run"
    /\ idx = Len(commands)
    /\ prompts' = Append(prompts, rendered(prompt_template,
                                           make_prompt_formatter(prompt_template)))
    /\ pc' = "run_wait_for"
    /\ UNCHANGED <<commands, idx, shell, prompt_template, speed, test_mode, aliases,
                   envvars, text, i, in_char, emitted, keys, warnings, executed, cwd>>
    /\ no_recorder

\* run: wait_for(RETURNS), then 'FINISHED SESSION'
Run_wait_for ==
    /\ pc = "run_wait_for"
    /\ \E key \in KEYS :
        /\ in_char' = key
        /\ pc' = CASE wait_for(key, RETURNS) = "abort" -> "aborted"
                   [] wait_for(key, RETURNS) = "return" -> "finished"
                   [] OTHER -> "run_wait_for"
    /\ UNCHANGED <<commands, idx, shell, prompt_template, speed, test_mode, aliases,
                   envvars, text, i, emitted, keys, prompts, warnings, executed, cwd>>
    /\ no_recorder

----------------------------------------------------------------------------
(* doitlive record *)

no_player ==
    UNCHANGED <<commands, idx, shell, prompt_template, speed, test_mode, aliases, envvars,
                text, i, in_char, emitted, keys, term>>

RECORDED_WITH ==
    <<"#", " ", "R", "e", "c", "o", "r", "d", "e", "d", " ", "w", "i", "t", "h", " ",
      "t", "h", "e", " ", "d", "o", "i", "t", "l", "i", "v", "e", " ",
      "r", "e", "c", "o", "r", "d", "e", "r">>

\* HEADER_TEMPLATE.format(shell=shell, prompt=prompt)
HEADER_TEMPLATE(sh, prompt) ==
    file_of(<<RECORDED_WITH, directive_line(SHELL, sh), directive_line(PROMPT, prompt)>>)

\* write_directives(fp, directive, args): the text written
write_directives(directive, args) ==
    file_of([k \in 1..Len(args) |-> directive_line(directive, args[k])])

\* record: the text written to the session file
session_text(sh, prompt, alias, envvar, buffer) ==
    HEADER_TEMPLATE(sh, prompt)
    \o write_directives(ALIAS, alias)
    \o write_directives(ENV, envvar)
    \o <<"\n">>
    \o join(<<"\n", "\n">>, buffer)
    \o <<"\n">>

\* record: the file exists and click.confirm(..., abort=True) asks whether to
\* overwrite it; then the instructions, and 'cwd = os.getcwd()'
Record_exists ==
    /\ pc = "record"
    /\ session_file # NoFile
    /\ \E a \in BOOLEAN :
        /\ answer' = a
        /\ IF a THEN pc' = "run_recorder" /\ rec' = [rec EXCEPT !.cwd = cwd]
                ELSE pc' = "aborted" /\ rec' = rec
    /\ UNCHANGED <<prompts, warnings, executed, cwd, session_file, rec_commands, command>>
    /\ no_player

\* record: the file does not exist; the instructions, and 'cwd = os.getcwd()'
Record_new ==
    /\ pc = "record"
    /\ session_file = NoFile
    /\ pc' = "run_recorder"
    /\ rec' = [rec EXCEPT !.cwd = cwd]
    /\ UNCHANGED <<prompts, warnings, executed, cwd, session_file, rec_commands, command,
                   answer>>
    /\ no_player

\* run_recorder: the prompt is rendered and click.prompt(...).strip() returns `input`
recorder_reads(input) ==
    /\ pc = "run_recorder"
    /\ Len(prompts) < MaxInputs
    /\ has_theme(rec.prompt)
    /\ command' = strip(input)
    /\ prompts' = Append(prompts, rendered(rec.prompt, theme(rec.prompt)))

\* run_recorder: THEMES[prompt] raises KeyError
Recorder_keyerror ==
    /\ pc = "run_recorder"
    /\ ~has_theme(rec.prompt)
    /\ pc' = "error"
    /\ UNCHANGED <<prompts, warnings, executed, cwd, session_file, rec, rec_commands,
                   command, answer>>
    /\ no_player

\* Faulty variant of restored_cwd: the process stays where the recorded commands
\* left it.
unrestored_cwd(saved, current) == current

\* record: os.chdir(cwd), where cwd is the directory saved before the loop
restored_cwd(saved, current) == saved

\* run_recorder: 'stop' breaks the loop; record then does os.chdir(cwd)
Recorder_stop ==
    /\ \E input \in RecorderInputs :
        /\ recorder_reads(input)
        /\ strip(input) = STOP_COMMAND
    /\ cwd' = restored_cwd(rec.cwd, cwd)
    /\ pc' = "record_write"
    /\ UNCHANGED <<warnings, executed, session_file, rec, rec_commands, answer>>
    /\ no_player

\* run_recorder: 'P' echoes the buffer
Recorder_preview ==
    /\ \E input \in RecorderInputs :
        /\ recorder_reads(input)
        /\ strip(input) = PREVIEW_COMMAND
    /\ pc' = "run_recorder"
    /\ UNCHANGED <<warnings, executed, cwd, session_file, rec, rec_commands, answer>>
    /\ no_player

\* Faulty variant of undo_asks: the confirmation is asked for an empty buffer too.
undo_asks_always(list) == TRUE

\* run_recorder: 'if commands and click.confirm(...)' evaluates click.confirm
undo_asks(list) == list # <<>>

\* run_recorder: 'U' asks for confirmation when the buffer is not empty
Recorder_undo ==
    /\ \E input \in RecorderInputs :
        /\ recorder_reads(input)
        /\ strip(input) = UNDO_COMMAND
    /\ pc' = IF undo_asks(rec_commands) THEN "recorder_confirm" ELSE "run_recorder"
    /\ UNCHANGED <<warnings, executed, cwd, session_file, rec, rec_commands, answer>>
    /\ no_player

\* Faulty variant of pop: the oldest entry is removed.
pop_first(list) == SubSeq(list, 2, Len(list))

\* commands.pop()
pop(list) == SubSeq(list, 1, Len(list) - 1)

\* run_recorder: click.confirm('Remove command? ...') answers; yes pops the buffer
Recorder_confirm ==
    /\ pc = "recorder_confirm"
    /\ \E a \in BOOLEAN :
        /\ answer' = a
        /\ rec_commands' = IF a THEN pop(rec_commands) ELSE rec_commands
    /\ pc' = "run_recorder"
    /\ UNCHANGED <<prompts, warnings, executed, cwd, session_file, rec, command>>
    /\ no_player

\* Faulty variant of is_reserved: the preview token is not told from a command.
is_reserved_but_preview(input) == input \in {STOP_COMMAND, UNDO_COMMAND}

\* the reserved inputs of the recorder
is_reserved(input) == input \in {STOP_COMMAND, PREVIEW_COMMAND, UNDO_COMMAND}

\* run_recorder: any other input is appended to the buffer and run with
\* run_command(command, shell, aliases, envvars, test_mode=TESTING)
Recorder_command ==
    /\ Len(executed) < MaxRecorded
    /\ \E input \in RecorderInputs, status \in STATUSES :
        /\ recorder_reads(input)
        /\ ~is_reserved(strip(input))
        /\ rec_commands' = Append(rec_commands, strip(input))
        /\ run_command(strip(input), rec.shell, rec.alias, rec.envvar, test_mode, status)
        /\ pc' = IF run_command_raises(strip(input), test_mode, status)
                 THEN "error" ELSE "run_recorder"
    /\ UNCHANGED <<session_file, rec, answer>>
    /\ no_player

\* Faulty variant of Recorder_abort: the buffer is saved to the file on the way out.
Recorder_abort_saves ==
    /\ pc \in {"run_recorder", "recorder_confirm"}
    /\ pc = "run_recorder" => has_theme(rec.prompt)
    /\ pc' = "aborted"
    /\ session_file' =
            session_text(rec.shell, rec.prompt, rec.alias, rec.envvar, rec_commands)
    /\ UNCHANGED <<prompts, warnings, executed, cwd, rec, rec_commands, command, answer>>
    /\ no_player

\* click.prompt (after the prompt is rendered) or click.confirm raises Abort
\* (Ctrl-C, end of input)
Recorder_abort ==
    /\ pc \in {"run_recorder", "recorder_confirm"}
    /\ pc = "run_recorder" => has_theme(rec.prompt)
    /\ pc' = "aborted"
    /\ UNCHANGED <<prompts, warnings, executed, cwd, session_file, rec, rec_commands,
                   command, answer>>
    /\ no_player

\* record: 'with open(session_file, 'w') ...' writes the file
Record_write ==
    /\ pc = "record_write"
    /\ session_file' = session_text(rec.shell, rec.prompt, rec.alias, rec.envvar, rec_commands)
    /\ pc' = "recorded"
    /\ UNCHANGED <<prompts, warnings, executed, cwd, rec, rec_commands, command, answer>>
    /\ no_player

Next ==
    \/ Play
    \/ Run_blank
    \/ Run_comment
    \/ Run_prompt
    \/ Run_shell
    \/ Run_alias
    \/ Run_env
    \/ Run_speed
    \/ Run_magictype
    \/ Magictype_getchar
    \/ Magictype_wait_for
    \/ Run_prompt_last
    \/ Run_wait_for
    \/ Record_exists
    \/ Record_new
    \/ Recorder_keyerror
    \/ Recorder_stop
    \/ Recorder_preview
    \/ Recorder_undo
    \/ Recorder_confirm
    \/ Recorder_command
    \/ Recorder_abort
    \/ Record_write

Spec == Init /\ [][Next]_vars

----------------------------------------------------------------------------
(* A prompt token's value under a chain of modifiers, as str.format evaluates *)
(* a field such as {git_branch.red.paren.git}: one attribute access at a time *)

MaxChain == 3            \* modifiers applied to one token

\* get_prompt_state()['git_branch']: no branch, or the branch 'm'
RAWS == {<<>>, <<"m">>}

InitStyle ==
    /\ pc = "style"
    /\ term \in {[raw |-> r, mods |-> <<>>, value |-> r] : r \in RAWS}
    /\ session_file = NoFile /\ rec = NoRec
    /\ shell = BIN_BASH /\ prompt_template = DEFAULT /\ speed = 1 /\ test_mode = FALSE
    /\ InitLocals
    /\ cwd = START_DIR

more_modifiers == pc = "style" /\ Len(term.mods) < MaxChain

modified(name, value) ==
    /\ term' = [raw |-> term.raw, mods |-> Append(term.mods, name), value |-> value]
    /\ UNCHANGED <<pc, commands, idx, shell, prompt_template, speed, test_mode, aliases,
                   envvars, text, i, in_char, emitted, keys, prompts, warnings, executed,
                   cwd, session_file, rec, rec_commands, command, answer>>

\* a colour or an attribute: {token. ... .red}
Get_style ==
    /\ more_modifiers
    /\ \E name \in STYLES : modified(name, Style(term.value, name))

\* {token. ... .paren}, .square, .curly
Get_bracket ==
    /\ more_modifiers
    /\ \E name \in DOMAIN BRACKETS : modified(name, bracket(term.value, name))

\* {token. ... .git}
Get_git ==
    /\ more_modifiers
    /\ modified("git", git(term.value))

NextStyle ==
    \/ Get_style
    \/ Get_bracket
    \/ Get_git

SpecStyle == InitStyle /\ [][NextStyle]_vars

----------------------------------------------------------------------------
(* Properties *)

Last(seq) == seq[Len(seq)]

\* the process is inside run
PLAYING == {"run", "magictype", "magictype_wait_for", "run_wait_for"}

\* the commands of the calls of run_command, in order
executed_cmds == [k \in 1..Len(executed) |-> executed[k].cmd]

\* the lines of a script that are neither blank nor comments, stripped
RECURSIVE script_commands(_)
script_commands(lines) ==
    IF lines = <<>> THEN <<>>
    ELSE (IF strip(Head(lines)) # <<>> /\ Head(strip(Head(lines))) # "#"
          THEN <<strip(Head(lines))>> ELSE <<>>)
         \o script_commands(Tail(lines))

\* the values of the directives `option` among the lines, in order
RECURSIVE directive_args(_, _)
directive_args(lines, option) ==
    IF lines = <<>> THEN <<>>
    ELSE (IF OPTION_RE(strip(Head(lines))).option = option
          THEN <<OPTION_RE(strip(Head(lines))).arg>> ELSE <<>>)
         \o directive_args(Tail(lines), option)

last_or(seq, default) == IF seq = <<>> THEN default ELSE Last(seq)

Ceil(n, d) == (n + d - 1) \div d

\* C1: during playback a command is passed to run_command only when every character
\* of its text has been emitted (the cursor is at or past the end of the text) and a
\* return or newline keystroke has been read after that.
C1_ExecutedAfterDisplayAndReturn ==
    [][(pc \in PLAYING /\ executed' # executed) =>
        /\ pc = "magictype_wait_for"
        /\ i >= Len(text)
        /\ emitted = text
        /\ in_char' \in RETURNS
        /\ executed' = Append(executed, Last(executed'))
        /\ Last(executed').cmd = text]_vars

\* C1 witness: a command of several keystrokes has been typed and executed in playback.
C1_Witness == pc = "run" /\ executed # <<>> /\ keys >= 2 /\ Last(executed).cmd = text

\* C2: an escape keystroke read while a command is typed or awaits its return aborts
\* playback at once: no further character is emitted, the command is not passed to
\* run_command, and nothing happens after the abort (no command, no directive).
C2_EscapeAborts ==
    [][/\ (pc \in {"magictype", "magictype_wait_for"} /\ in_char' = ESC) =>
            /\ pc' = "aborted"
            /\ emitted' = emitted
            /\ executed' = executed
            /\ idx' = idx
            /\ <<shell, prompt_template, speed, aliases, envvars>>'
                 = <<shell, prompt_template, speed, aliases, envvars>>
       /\ pc = "aborted" => FALSE]_vars

\* C2 witness: playback was aborted in the middle of a command's text.
C2_Witness ==
    /\ pc = "aborted" /\ in_char = ESC
    /\ 0 < Len(emitted) /\ Len(emitted) < Len(text)
    /\ script_commands(commands) # executed_cmds

\* C3: with speed N >= 1 and a text of length L >= 1, each non-escape keystroke
\* reveals the next N characters (the last one possibly fewer), and the wait for
\* return is entered after exactly ceil(L/N) keystrokes with exactly the text emitted.
C3_KeystrokesCeil ==
    (speed >= 1 /\ Len(text) >= 1) =>
        /\ pc = "magictype" =>
            /\ i = keys * speed
            /\ i < Len(text)
            /\ emitted = SubSeq(text, 1, i)
        /\ pc = "magictype_wait_for" =>
            /\ keys = Ceil(Len(text), speed)
            /\ emitted = text

\* C3 witness: a text of 4 characters typed at speed 3, the second keystroke
\* revealing the one character left.
C3_Witness ==
    pc = "magictype_wait_for" /\ speed = 3 /\ Len(text) = 4 /\ keys = 2 /\ emitted = text

\* C4: the aliases and env vars handed to a command are the values of the alias and
\* env directives before it in the file, in file order, nothing reordered, removed or
\* deduplicated; its prompt, shell and speed are those of the latest directive before
\* it, or run's argument; and a call of run_command, once made, is never altered.
C4_DirectivesBeforeCommand ==
    [][/\ (pc = "magictype_wait_for" /\ executed' # executed) =>
            LET before == SubSeq(commands, 1, idx)
                call == Last(executed')
            IN  /\ call.cmd = strip(commands[idx + 1])
                /\ call.aliases = directive_args(before, ALIAS)
                /\ call.envvars = directive_args(before, ENV)
                /\ call.shell = last_or(directive_args(before, SHELL), BIN_BASH)
                /\ Last(prompts).template = last_or(directive_args(before, PROMPT), DEFAULT)
                /\ speed = IF directive_args(before, SPEED) = <<>> THEN 1
                           ELSE int(Last(directive_args(before, SPEED)))
       /\ pc \in PLAYING => SubSeq(executed', 1, Len(executed)) = executed]_vars

\* C4 witness: a command was executed with two aliases, the second set first in the
\* alphabet, and one more line of the script is still to come.
C4_Witness ==
    /\ pc = "run" /\ executed # <<>>
    /\ Last(executed).aliases = << <<"b">>, <<"a">> >>

\* C5: the commands passed to run_command are exactly the script's lines that are
\* neither blank nor comments, stripped, in order and once each; and the session is
\* finished only after the last of them was executed, the prompt was rendered once
\* more and a return was read.
C5_CommandsInScriptOrder ==
    /\ pc \in PLAYING \cup {"finished"} =>
        /\ executed_cmds = script_commands(SubSeq(commands, 1, idx))
        /\ Len(prompts) = Len(executed)
                          + (IF pc = "run" THEN 0 ELSE 1)
    /\ pc = "finished" =>
        /\ idx = Len(commands)
        /\ executed_cmds = script_commands(commands)
        /\ in_char \in RETURNS

\* C5 witness: a script with a blank or comment line and two commands was played to
\* the end.
C5_Witness ==
    /\ pc = "finished" /\ rec = NoRec
    /\ Len(executed) = 2 /\ Len(commands) = 3

\* C6 (as claimed): replaying the file a recording wrote invokes exactly the
\* buffered commands, in order and once each, under the recorded shell and with the
\* recorded aliases and env vars in their order.
C6_RoundTrip ==
    (pc = "finished" /\ rec # NoRec) =>
        /\ executed_cmds = rec_commands
        /\ \A k \in 1..Len(executed) :
            /\ executed[k].shell = rec.shell
            /\ executed[k].aliases = rec.alias
            /\ executed[k].envvars = rec.envvar

nonblank(line) == strip(line) # <<>>

\* a line without its newline
chomp(line) ==
    IF line # <<>> /\ Last(line) = "\n" THEN SubSeq(line, 1, Len(line) - 1) ELSE line

\* the non-blank lines of a file after its first n lines, without their newlines
file_entries(file, n) ==
    LET lines == readlines(file)
        body == SubSeq(lines, n + 1, Len(lines))
    IN  SelectSeq([k \in 1..Len(body) |-> chomp(body[k])], nonblank)

\* C7: a confirmed undo on a non-empty buffer removes exactly the last entry and
\* leaves the earlier ones as they were; and the file written at stop holds, after
\* its header (3 lines, the alias and env directives, a blank line), exactly the
\* entries left in the buffer, in order.
C7_UndoRemovesLast ==
    [][/\ (pc = "recorder_confirm" /\ pc' = "run_recorder" /\ answer') =>
            /\ rec_commands # <<>>
            /\ rec_commands' = SubSeq(rec_commands, 1, Len(rec_commands) - 1)
       /\ (pc = "record_write" /\ pc' = "recorded") =>
            file_entries(session_file', 3 + Len(rec.alias) + Len(rec.envvar) + 1)
              = SelectSeq(rec_commands, nonblank)]_vars

\* C7 witness: 'ls' and 'cd x' were recorded, the undo was confirmed, and the file
\* was written with the buffer [ls].
C7_Witness ==
    /\ pc = "recorded" /\ answer
    /\ executed_cmds = <<strip(L_LS), L_CD>>
    /\ rec_commands = <<strip(L_LS)>>

\* C8: a cd whose directory cannot be entered is not fatal: the warning is echoed, the
\* working directory is what it was, no interpreter script is made or run, and
\* playback (or recording) goes on with the next instruction.
C8_CdFailureNonFatal ==
    [][(/\ pc \in {"magictype_wait_for", "run_recorder"}
        /\ executed' # executed
        /\ is_cd(Last(executed').cmd)
        /\ ~chdir_ok(cwd, expanduser(cd_directory(Last(executed').cmd)))) =>
            /\ cwd' = cwd
            /\ warnings' = Append(warnings, cd_directory(Last(executed').cmd))
            /\ Last(executed').script = <<>>
            /\ Last(executed').status = NoStatus
            /\ pc' = IF pc = "magictype_wait_for" THEN "run" ELSE "run_recorder"
            /\ pc = "magictype_wait_for" => idx' = idx + 1]_vars

\* C8 witness: in playback a second 'cd x' failed inside x, and a line is still to come.
C8_Witness ==
    /\ pc = "run" /\ idx < Len(commands)
    /\ warnings = << <<"x">> >>
    /\ cwd = HOME \o <<"/", "x">>

\* C9: in test mode a command whose child exits non-zero ends run with an error, and
\* nothing follows; otherwise (normal mode, whatever the exit status) run goes on to
\* the next line.
C9_FailurePropagation ==
    [][/\ (pc = "magictype_wait_for" /\ executed' # executed) =>
            IF /\ Last(executed').test_mode
               /\ Last(executed').status # NoStatus
               /\ Last(executed').status # 0
            THEN pc' = "error"
            ELSE pc' = "run" /\ idx' = idx + 1
       /\ pc = "error" => FALSE]_vars

\* C9 witness: in normal mode the first command exited non-zero and the second was
\* typed and executed after it.
C9_Witness ==
    /\ pc = "run" /\ ~test_mode /\ rec = NoRec
    /\ Len(executed) = 2 /\ executed[1].status = 1

\* C10 (as claimed): the speed handed to magictype is an integer >= 1.
C10_SpeedPositive ==
    pc \in {"magictype", "magictype_wait_for"} => speed >= 1


(* C11 *)
\* what the terminal shows of a styled value: neither escape sequences nor backspaces
is_visible(c) == c \notin ANSI /\ c # BACKSPACE
visible(s) == SelectSeq(s, is_visible)

\* the raw text with one delimiter pair per bracket modifier and one 'git:' per label
\* modifier, innermost first
RECURSIVE wrapped(_, _)
wrapped(raw, mods) ==
    IF mods = <<>> THEN raw
    ELSE LET inner == wrapped(raw, SubSeq(mods, 1, Len(mods) - 1))
             name == mods[Len(mods)]
         IN  IF name \in DOMAIN BRACKETS
                 THEN <<BRACKETS[name][1]>> \o inner \o <<BRACKETS[name][2]>>
             ELSE IF name = "git" THEN <<"g", "i", "t", ":">> \o inner
             ELSE inner

\* C11: a token whose underlying text is empty shows nothing under any chain of
\* colour, attribute, bracket and label modifiers (no bracket, no 'git:' label); a
\* token with a non-empty text shows the text inside one delimiter pair or label per
\* bracket or label modifier of the chain.
C11_EmptyShowsNothing ==
    pc = "style" =>
        IF term.raw = <<>> THEN visible(term.value) = <<>>
        ELSE visible(term.value) = wrapped(term.raw, term.mods)
(* C12 *)
\* the template a configured prompt stands for: the theme of that name, else the
\* configured string itself
resolved(configured) ==
    IF \E k \in 1..Len(THEMES) : THEMES[k].name = configured
    THEN LET k == CHOOSE k \in 1..Len(THEMES) : THEMES[k].name = configured
         IN  THEMES[k].template
    ELSE configured

C13_CwdRestoredBeforeWrite ==
    [][/\ pc = "run_recorder" /\ pc' = "record_write"
            => /\ command' = STOP_COMMAND
               /\ cwd' = START_DIR /\ cwd' = rec.cwd
       /\ pc \in {"record", "run_recorder", "recorder_confirm", "record_write"}
          /\ session_file' # session_file
            => /\ pc = "record_write"
               /\ cwd = START_DIR /\ cwd' = START_DIR
      ]_vars

\* a recording that went into another directory has been stopped and written
C13_Witness ==
    /\ pc = "recorded"
    /\ \E k \in 1..Len(executed) : executed[k].cmd = L_CD
    /\ warnings = <<>>
    /\ cwd = START_DIR
(* C14 *)
RECORDING == {"record", "run_recorder", "recorder_confirm", "record_write"}

\* C14: the session file is written only after the recorder's loop has ended with
\* an explicit stop, in one step and with the final buffer; while commands are
\* entered, previewed or undone the file is not written, and a recording aborted
\* before stop leaves the file as it was, for good.
C14_WrittenOnlyAfterStop ==
    [][/\ pc \in RECORDING /\ session_file' # session_file
            => /\ pc = "record_write" /\ pc' = "recorded"
               /\ command = STOP_COMMAND
               /\ rec_commands' = rec_commands
               /\ file_entries(session_file', 3 + Len(rec.alias) + Len(rec.envvar))
                      = SelectSeq(rec_commands, nonblank)
       /\ pc \in RECORDING \ {"record_write"} => session_file' = session_file
       /\ pc \in RECORDING /\ pc' = "aborted" => session_file' \in {NoFile, OLD_FILE}
       /\ pc = "aborted" => FALSE
      ]_vars

\* commands were entered and the recording was aborted before stop
C14_Witness ==
    /\ pc = "aborted"
    /\ rec_commands # <<>>
    /\ command # STOP_COMMAND
    /\ session_file \in {NoFile, OLD_FILE}
(* C15 *)
\* 'bash' occurs in the shell's path
names_bash(sh) ==
    \E j \in 1..(Len(sh) - 3) : SubSeq(sh, j, j + 3) = <<"b", "a", "s", "h">>

\* lines first + 1 .. first + Len(args) of the script are '<word> <arg>', in order
lines_are(script, first, word, args) ==
    \A k \in 1..Len(args) : script[first + k] = word \o <<" ">> \o args[k]

is_shebang(line, sh) == line = <<"#", "!">> \o sh
is_expand_aliases(line) == line = SHOPT

\* the calls of run_command that wrote a script
scripted == {k \in 1..Len(executed) : ~startswith(executed[k].cmd, <<"c", "d", " ">>)}

\* C15 as stated: the script of a command that is no directory change holds, in this
\* order: the shebang line; one export line per environment variable; one alias line
\* per alias; then, only for a bash shell, the alias-expansion line; last the command.
C15_ScriptOrderStated ==
    \A k \in scripted :
        LET e == executed[k]
            s == e.script
            nE == Len(e.envvars)
            nA == Len(e.aliases)
            b == IF names_bash(e.shell) THEN 1 ELSE 0
        IN  /\ Len(s) = 1 + nE + nA + b + 1
            /\ is_shebang(s[1], e.shell)
            /\ lines_are(s, 1, EXPORT, e.envvars)
            /\ lines_are(s, 1 + nE, ALIAS, e.aliases)
            /\ b = 1 => is_expand_aliases(s[1 + nE + nA + 1])
            /\ s[Len(s)] = e.cmd

\* C15, amended: the script holds, in this order: the shebang line; the coding
\* comment line; then, only for a bash shell, the alias-expansion line; one export
\* line per environment variable, in order; one alias line per alias, in order; last
\* the command line, which is always the final line.
C15_ScriptOrder ==
    \A k \in scripted :
        LET e == executed[k]
            s == e.script
            nE == Len(e.envvars)
            nA == Len(e.aliases)
            b == IF names_bash(e.shell) THEN 1 ELSE 0
        IN  /\ Len(s) = 2 + b + nE + nA + 1
            /\ is_shebang(s[1], e.shell)
            /\ s[2] = CODING
            /\ b = 1 => is_expand_aliases(s[3])
            /\ lines_are(s, 2 + b, EXPORT, e.envvars)
            /\ lines_are(s, 2 + b + nE, ALIAS, e.aliases)
            /\ s[Len(s)] = e.cmd
            /\ \A j \in 1..(Len(s) - 1) : j # 3 \/ b = 0 => ~is_expand_aliases(s[j])

\* a command has run under bash with an alias and an environment variable defined
C15_Witness ==
    \E k \in scripted :
        /\ names_bash(executed[k].shell)
        /\ executed[k].aliases # <<>>
        /\ executed[k].envvars # <<>>
        /\ Len(executed[k].script) = 6
(* C16 *)
\* the whole remainder of a command line after its first three characters
remainder(cmd) == SubSeq(cmd, 4, Len(cmd))

\* C16: a command that begins with 'cd ' changes into the directory named by the
\* entire remainder of the line after that prefix, home shorthand expanded, also
\* when the remainder holds several words with whitespace between them: the command
\* moves the process there if it exists and else leaves it where it is, with a
\* warning.
C16_CdTargetIsRemainder ==
    [][(/\ Len(executed') = Len(executed) + 1
        /\ startswith(Last(executed').cmd, <<"c", "d", " ">>))
            => LET target == expanduser(remainder(Last(executed').cmd)) IN
               IF chdir_ok(cwd, target)
               THEN cwd' = resolve(cwd, target) /\ warnings' = warnings
               ELSE cwd' = cwd /\ Len(warnings') = Len(warnings) + 1
      ]_vars
(* C17 *)
\* everything but the keystroke read last
but_in_char ==
    <<pc, commands, idx, shell, prompt_template, speed, test_mode, aliases, envvars,
      text, i, emitted, keys, prompts, warnings, executed, cwd, session_file, rec,
      rec_commands, command, answer, term>>

\* C17: while a typed command awaits its return, a keystroke that is neither escape
\* nor return emits nothing, executes nothing and changes no state; a return leads
\* to exactly one execution, of that command, after which run has left the command;
\* an escape aborts without an execution, and nothing follows an abort.
C17_ReturnWait ==
    [][/\ pc = "magictype_wait_for" =>
            /\ in_char' = ESC =>
                    pc' = "aborted" /\ executed' = executed /\ emitted' = emitted
            /\ in_char' \in RETURNS =>
                    /\ executed' = Append(executed, Last(executed'))
                    /\ Last(executed').cmd = text
                    /\ emitted' = emitted
                    /\ \/ pc' = "run" /\ idx' = idx + 1
                       \/ pc' = "error" /\ test_mode
            /\ in_char' \notin RETURNS \cup {ESC} => UNCHANGED but_in_char
       /\ pc = "aborted" => UNCHANGED vars
       /\ pc \in PLAYING /\ executed' # executed => pc = "magictype_wait_for"
      ]_vars

\* two commands have each been accepted by a return and executed once, and a third
\* line is still to be played
C17_Witness ==
    /\ pc = "run" /\ rec = NoRec
    /\ in_char \in RETURNS
    /\ idx = 2 /\ Len(commands) = 3
    /\ executed_cmds = <<strip(commands[1]), strip(commands[2])>>
(* C18 *)
\* the recorder reads `token` at its prompt in this step
reads(token) ==
    pc = "run_recorder" /\ Len(prompts') = Len(prompts) + 1 /\ command' = token

\* the buffer, the calls made, the directory and the file are what they were
nothing_recorded ==
    UNCHANGED <<rec_commands, executed, warnings, cwd, session_file>>

\* C18: the preview token, the undo token on an empty buffer, and the undo token
\* with the confirmation declined each leave the buffer unchanged, execute nothing
\* and do not end the loop; undo asks for confirmation only when the buffer is not
\* empty.
C18_NoOpTokens ==
    [][/\ reads(PREVIEW_COMMAND) => nothing_recorded /\ pc' = "run_recorder"
       /\ reads(UNDO_COMMAND) /\ rec_commands = <<>>
            => nothing_recorded /\ pc' = "run_recorder"
       /\ reads(UNDO_COMMAND) /\ rec_commands # <<>>
            => nothing_recorded /\ pc' = "recorder_confirm"
       /\ pc = "recorder_confirm" /\ pc' # "aborted" /\ ~answer'
            => nothing_recorded /\ pc' = "run_recorder"
       /\ pc' = "recorder_confirm" => rec_commands' # <<>>
      ]_vars

\* an undo was declined: the buffer still holds both commands entered
C18_Witness ==
    /\ pc = "run_recorder"
    /\ command = UNDO_COMMAND /\ ~answer
    /\ Len(rec_commands) = 2 /\ Len(executed) = 2
(* C19 *)
\* C19: whatever speed the speed argument or a speed directive has set, every
\* keystroke other than escape read while a command is typed moves the cursor
\* strictly forward, so that the wait for the return is reached after at most as
\* many keystrokes as the command has characters.
C19_TypingProgress ==
    [][(pc = "magictype" /\ keys' = keys + 1 /\ in_char' # ESC)
            => /\ i' > i
               /\ keys' <= Len(text)
      ]_vars
(* C20 *)
\* `short` is `long` with some entries left out
RECURSIVE is_subsequence(_, _)
is_subsequence(short, long) ==
    IF short = <<>> THEN TRUE
    ELSE IF long = <<>> THEN FALSE
    ELSE IF Head(short) = Head(long) THEN is_subsequence(Tail(short), Tail(long))
    ELSE is_subsequence(short, Tail(long))

RESERVED == {<<"s", "t", "o", "p">>, <<"P">>, <<"U">>}

in_seq(seq) == {seq[k] : k \in 1..Len(seq)}

\* C20: in the recorder the commands run by run_command are exactly the inputs that
\* are no reserved token, in input order, each run once, when it is appended to the
\* buffer; a confirmed undo removes from the buffer and runs (or reverses) nothing;
\* so the buffer is the sequence of commands run with the undone ones left out, it
\* is never longer than that sequence, and no reserved token is appended or run.
C20_ExecutedAreTheInputs ==
    [][/\ (pc = "run_recorder" /\ Len(prompts') = Len(prompts) + 1) =>
            IF command' \in RESERVED
            THEN executed' = executed /\ rec_commands' = rec_commands
            ELSE /\ executed_cmds' = Append(executed_cmds, command')
                 /\ rec_commands' = Append(rec_commands, command')
       /\ pc = "recorder_confirm" =>
            /\ executed' = executed /\ cwd' = cwd /\ warnings' = warnings
            /\ rec_commands' \in
                    {rec_commands, SubSeq(rec_commands, 1, Len(rec_commands) - 1)}
       /\ pc' \in RECORDING =>
            /\ is_subsequence(rec_commands', executed_cmds')
            /\ Len(executed') >= Len(rec_commands')
            /\ in_seq(executed_cmds') \cap RESERVED = {}
            /\ in_seq(rec_commands') \cap RESERVED = {}
      ]_vars

\* two commands were entered and run, and both have been undone
C20_Witness ==
    /\ pc = "run_recorder"
    /\ Len(executed) = 2 /\ rec_commands = <<>>
    /\ command = UNDO_COMMAND /\ answer
====
